---- MODULE Spec2Model ----
(***************************************************************************)
(* Luhmann-style identifier algebra and hierarchy reorganisation of the   *)
(* luhman-obsidian-plugin (IDUtils, NoteService, NewZettel).               *)
(*                                                                         *)
(* A string is a sequence of one-character strings, so that the regular    *)
(* expressions of id-utils.ts (component splitting, filename matching)     *)
(* are computed on the characters and not assumed.                         *)
(***************************************************************************)
EXTENDS Integers, Sequences, FiniteSets, TLC

(***************************************************************************)
(* Characters                                                              *)
(***************************************************************************)
DigitChars ==
  <<"0", "1", "2", "3", "4", "5", "6", "7", "8", "9">>

IsDigit(c) ==
  \E i \in 1..10 : DigitChars[i] = c

\* the table of id-utils.ts, entry by entry; a value is a string
lettersIDComponentSuccessors ==
  [a |-> <<"b">>, b |-> <<"c">>, c |-> <<"d">>, d |-> <<"e">>, e |-> <<"f">>,
   f |-> <<"g">>, g |-> <<"h">>, h |-> <<"i">>, i |-> <<"j">>, j |-> <<"k">>,
   k |-> <<"l">>, l |-> <<"m">>, m |-> <<"n">>, n |-> <<"o">>, o |-> <<"p">>,
   p |-> <<"q">>, q |-> <<"r">>, r |-> <<"s">>, s |-> <<"t">>, t |-> <<"u">>,
   u |-> <<"v">>, v |-> <<"w">>, w |-> <<"x">>, x |-> <<"y">>, y |-> <<"z">>,
   z |-> <<"a", "a">>]

\* [a-z]
IsLetter(c) ==
  c \in DOMAIN lettersIDComponentSuccessors

IsIdChar(c) ==
  IsDigit(c) \/ IsLetter(c)

\* Array.prototype.join(""): the concatenation of the parts
RECURSIVE Join(_)
Join(parts) ==
  IF parts = <<>> THEN <<>> ELSE Head(parts) \o Join(Tail(parts))

\* the longest prefix of s whose characters are all digits (kind = TRUE)
\* or all lowercase letters (kind = FALSE): what [0-9]+ or [a-z]+ consumes
RECURSIVE RunLen(_, _)
RunLen(s, kind) ==
  IF s = <<>> THEN 0
  ELSE IF (kind /\ IsDigit(Head(s))) \/ (~kind /\ IsLetter(Head(s)))
       THEN 1 + RunLen(Tail(s), kind)
       ELSE 0

\* id.match(/([0-9]+|[a-z]+)/g): the maximal digit runs and letter runs of
\* s from left to right, other characters skipped; <<>> stands for null
RECURSIVE idOnlyRegex(_)
idOnlyRegex(s) ==
  IF s = <<>> THEN <<>>
  ELSE IF IsIdChar(Head(s))
       THEN LET n == RunLen(s, IsDigit(Head(s)))
            IN  <<SubSeq(s, 1, n)>> \o idOnlyRegex(SubSeq(s, n + 1, Len(s)))
       ELSE idOnlyRegex(Tail(s))

\* /^\d+$/.test(string)
isNumber(s) ==
  s # <<>> /\ \A i \in 1..Len(s) : IsDigit(s[i])

DigitVal(c) ==
  (CHOOSE i \in 1..10 : DigitChars[i] = c) - 1

\* A Number holding a non-negative integer is written as its decimal digits
\* (values 0..9), most significant first, without leading zeros.
\* parseInt on a string of decimal digits: leading zeros do not count
RECURSIVE parseInt(_)
parseInt(s) ==
  IF Len(s) > 1 /\ s[1] = "0" THEN parseInt(Tail(s))
  ELSE [i \in DOMAIN s |-> DigitVal(s[i])]

\* 2^53 = 9007199254740992, the end of the integers a Number counts one by one
TwoTo53 ==
  <<9, 0, 0, 7, 1, 9, 9, 2, 5, 4, 7, 4, 0, 9, 9, 2>>

\* the integer after n
RECURSIVE NextInteger(_)
NextInteger(n) ==
  IF n = <<>> THEN <<1>>
  ELSE IF n[Len(n)] = 9 THEN NextInteger(SubSeq(n, 1, Len(n) - 1)) \o <<0>>
       ELSE SubSeq(n, 1, Len(n) - 1) \o <<n[Len(n)] + 1>>

\* n + 1 in double precision, for n up to 2^53: exact below 2^53, while
\* 2^53 + 1 is no Number and rounds to even, back to 2^53
PlusOne(n) ==
  IF n = TwoTo53 THEN n ELSE NextInteger(n)

\* Number.prototype.toString of a non-negative integer below 10^21
toString(n) ==
  [i \in DOMAIN n |-> DigitChars[n[i] + 1]]

incrementNumberIDComponent(id) ==
  toString(PlusOne(parseInt(id)))

\* a key missing from the table gives undefined, which join("") writes as ""
SuccessorOf(last) ==
  IF last \in DOMAIN lettersIDComponentSuccessors
  THEN lettersIDComponentSuccessors[last]
  ELSE <<>>

\* variant: a final "z" is kept and "a" appended ("zz" gives "zza")
incrementStringIDComponent_appends(id) ==
  IF id = <<>> THEN id
  ELSE IF id[Len(id)] = "z" THEN id \o <<"a">>
       ELSE SubSeq(id, 1, Len(id) - 1) \o SuccessorOf(id[Len(id)])

\* variant: "z" wraps around to "a" instead of growing to "aa"
incrementStringIDComponent_wraps(id) ==
  IF id = <<>> THEN id
  ELSE SubSeq(id, 1, Len(id) - 1)
         \o (IF id[Len(id)] = "z" THEN <<"a">> ELSE SuccessorOf(id[Len(id)]))

incrementStringIDComponent(id) ==
  IF id = <<>> THEN id
  ELSE SubSeq(id, 1, Len(id) - 1) \o SuccessorOf(id[Len(id)])

incrementIDComponent(id) ==
  IF isNumber(id) THEN incrementNumberIDComponent(id)
  ELSE incrementStringIDComponent(id)

\* variant: the incremented last component is returned without its prefix
incrementID_dropsPrefix(id) ==
  LET parts == idOnlyRegex(id)
  IN  IF parts = <<>> THEN id
      ELSE incrementIDComponent(parts[Len(parts)])

incrementID(id) ==
  LET parts == idOnlyRegex(id)
  IN  IF parts = <<>> THEN id
      ELSE Join(SubSeq(parts, 1, Len(parts) - 1))
             \o incrementIDComponent(parts[Len(parts)])

parentID(id) ==
  LET parts == idOnlyRegex(id)
  IN  IF parts # <<>> THEN Join(SubSeq(parts, 1, Len(parts) - 1))
      ELSE <<>>

\* variant: the seed is chosen from the first component (shift for pop)
nextComponentOf_kindOfFirst(id) ==
  LET parts == idOnlyRegex(id)
  IN  IF parts = <<>> THEN <<"a">>
      ELSE IF isNumber(parts[1]) THEN <<"a">> ELSE <<"1">>

\* variant: the seed is always a letter, whatever the last component
nextComponentOf_alwaysLetter(id) ==
  <<"a">>

nextComponentOf(id) ==
  LET parts == idOnlyRegex(id)
  IN  IF parts = <<>> THEN <<"a">>
      ELSE IF isNumber(parts[Len(parts)]) THEN <<"a">> ELSE <<"1">>

firstChildOf(parent) ==
  parent \o nextComponentOf(parent)


(***************************************************************************)
(* State                                                                   *)
(***************************************************************************)
VARIABLES
  settings,   \* LuhmanSettings: matchRule, separator, addTitle
  files,      \* the vault's markdown files (TFile: basename, parent path)
  stack,      \* call stack of the running reorganisation (async frames)
  pending,    \* note creations whose identifier is chosen, file not created
  op,         \* the command being run or last run, with the vault before it
  log,        \* renameZettel calls of the current command, in order
  notices,    \* notices shown by the current command
  calls,      \* start identifiers firstAvailableID was called with
  parg,       \* engine input under test
  pocc,       \* identifiers the existence predicate under test accepts
  pres,       \* engine value computed from parg
  ptrace      \* engine functions applied to parg so far

vars ==
  <<settings, files, stack, pending, op, log, notices, calls,
    parg, pocc, pres, ptrace>>

vaultVars ==
  <<settings, files, stack, pending, op, log, notices, calls>>

engineVars ==
  <<parg, pocc, pres, ptrace>>

(***************************************************************************)
(* fileToId                                                                *)
(***************************************************************************)
\* length of the longest prefix of s made of digits and lowercase letters
RECURSIVE IdPrefixLen(_)
IdPrefixLen(s) ==
  IF s = <<>> THEN 0
  ELSE IF IsIdChar(Head(s)) THEN 1 + IdPrefixLen(Tail(s)) ELSE 0

\* one character of the separator, read as the regular expression it is
\* spliced into: "." matches any character, another character itself
SepAtomMatches(atom, c) ==
  IF atom = "." THEN TRUE ELSE atom = c

\* the separator pattern matches filename at position n + 1
SeparatorMatchesAt(filename, n, sep) ==
  /\ n + Len(sep) <= Len(filename)
  /\ \A k \in 1..Len(sep) : SepAtomMatches(sep[k], filename[n + k])

\* ^((?:[0-9]+|[a-z]+)+)$
strictRegex(filename) ==
  IF filename # <<>> /\ IdPrefixLen(filename) = Len(filename)
  THEN filename ELSE <<>>

\* match[1] of a match in which the capturing group took no part
Undefined ==
  <<"undefined">>

\* new RegExp(...) throws a SyntaxError
Throws ==
  <<"throws">>

\* the separator leaves a group open in the pattern it is spliced into
UnterminatedGroup(sep) ==
  /\ \E k \in DOMAIN sep : sep[k] = "("
  /\ \A k \in DOMAIN sep : sep[k] # ")"

\* ^((?:[0-9]+|[a-z]+)+)<separator>.* with the separator spliced in as
\* pattern text. A separator of plain characters and "." : the group is
\* greedy and backtracks, so it is the longest non-empty prefix the
\* separator pattern follows. The separator "|" makes the pattern the
\* alternation of the group and of .*, the separator "*" makes the group
\* optional: both match every filename, with the longest identifier prefix
\* in the group, or without the group when there is none
separatorRegex(filename, sep) ==
  IF sep = <<"|">> \/ sep = <<"*">>
  THEN IF IdPrefixLen(filename) > 0
       THEN SubSeq(filename, 1, IdPrefixLen(filename))
       ELSE Undefined
  ELSE LET cands == {n \in 1..IdPrefixLen(filename) :
                       SeparatorMatchesAt(filename, n, sep)}
       IN  IF cands = {} THEN <<>>
           ELSE SubSeq(filename, 1,
                       CHOOSE n \in cands : \A m \in cands : m <= n)

\* ^((?:[0-9]+|[a-z]+)+).*
fuzzyRegex(filename) ==
  SubSeq(filename, 1, IdPrefixLen(filename))

\* the three patterns are built on every call, so the one of the separator
\* rule is compiled whatever the rule in force
fileToIdUnder(filename, matchRule, sep) ==
  IF UnterminatedGroup(sep) THEN Throws
  ELSE CASE matchRule = "strict" -> strictRegex(filename)
         [] matchRule = "separator" -> separatorRegex(filename, sep)
         [] matchRule = "fuzzy" -> fuzzyRegex(filename)

fileToId(filename) ==
  fileToIdUnder(filename, settings.matchRule, settings.separator)

(***************************************************************************)
(* firstAvailableID                                                        *)
(***************************************************************************)
\* the value standing for a search that never returns
Diverges ==
  <<"diverges">>

\* variant: the existence test is made once (if) instead of repeated (while)
firstAvailableIDIn_testsOnce(startingID, occupied) ==
  IF startingID \in occupied THEN incrementID(startingID) ELSE startingID

\* while (idExists(nextID)) nextID = incrementID(nextID); the loop spins
\* forever exactly when an occupied candidate is its own increment
RECURSIVE firstAvailableIDIn(_, _)
firstAvailableIDIn(startingID, occupied) ==
  IF startingID \notin occupied THEN startingID
  ELSE IF incrementID(startingID) = startingID THEN Diverges
  ELSE firstAvailableIDIn(incrementID(startingID), occupied)

\* the identifiers doesIdExist answers true for: every markdown file counts
OccupiedIn(fs) ==
  {fileToId(fs[h].basename) : h \in DOMAIN fs}

\* variant: no identifier is ever reported as taken
doesIdExist_never(id) ==
  FALSE

doesIdExist(id) ==
  \E h \in DOMAIN files : fileToId(files[h].basename) = id

firstAvailableID(startingID) ==
  firstAvailableIDIn(startingID, OccupiedIn(files))

\* variant: the next sibling is taken without the search for a free one
makeNoteForNextSiblingOfID_noSearch(siblingID) ==
  incrementID(siblingID)

makeNoteForNextSiblingOfID(siblingID) ==
  firstAvailableID(incrementID(siblingID))

\* variant: the first child is taken without the search for a free one
makeNoteForNextChildOfID_noSearch(parent) ==
  firstChildOf(parent)

makeNoteForNextChildOfID(parent) ==
  firstAvailableID(firstChildOf(parent))

(***************************************************************************)
(* Bounds and inputs                                                       *)
(***************************************************************************)
\* notes in an initial vault drawn from IdUniverse
MaxInitNotes == 3

\* identifiers of the initial notes: two roots, their children, grandchildren
IdUniverse ==
  { <<"1">>, <<"2">>,
    <<"1", "a">>, <<"1", "b">>, <<"2", "a">>,
    <<"1", "a", "1">>, <<"1", "a", "2">>, <<"1", "b", "1">> }

\* the outdent scenario of the specification: 1, 1a, 1a1, 1a2, 1b
OutdentScenario ==
  { <<"1">>, <<"1", "a">>, <<"1", "a", "1">>, <<"1", "a", "2">>,
    <<"1", "b">> }

\* the move scenario of the specification: 2, 2a, 3
MoveScenario ==
  { <<"2">>, <<"2", "a">>, <<"3">> }

\* an outdent whose target slot is taken by a note with descendants: 1a with
\* the children 1a1 and 1a2, next to 2, 2a and 2a1
EvacuationScenario ==
  { <<"1", "a">>, <<"1", "a", "1">>, <<"1", "a", "2">>, <<"2">>,
    <<"2", "a">>, <<"2", "a", "1">> }

\* an outdent of a note with a child and a grandchild: 1a above 1a1 and 1a1a
GrandchildScenario ==
  { <<"1">>, <<"1", "a">>, <<"1", "a", "1">>, <<"1", "a", "1", "a">> }

\* titles typed into the modal or taken from the selection
Titles ==
  { <<"T">>, <<>> }

\* folders of the vault; NoteService.filterZettelFiles skips the system ones
Dirs ==
  { "zk", "templates" }

SystemDirs ==
  { "_layouts", "templates", "scripts" }

\* the settings a vault is run under: the default, titled filenames under the
\* fuzzy and separator rules, and a separator rule with an untitled filename
Configs ==
  { [matchRule |-> "strict", separator |-> <<"-">>, addTitle |-> FALSE],
    [matchRule |-> "fuzzy", separator |-> <<"-">>, addTitle |-> TRUE],
    [matchRule |-> "separator", separator |-> <<"-">>, addTitle |-> TRUE],
    [matchRule |-> "separator", separator |-> <<".">>, addTitle |-> TRUE],
    [matchRule |-> "separator", separator |-> <<".">>, addTitle |-> FALSE] }

(***************************************************************************)
(* Vault helpers                                                           *)
(***************************************************************************)
RECURSIVE SetToSeq(_)
SetToSeq(S) ==
  IF S = {} THEN <<>>
  ELSE LET x == CHOOSE y \in S : TRUE IN <<x>> \o SetToSeq(S \ {x})

\* the sequences listing every element of S once: the orders in which
\* vault.getMarkdownFiles() may present them
Orders(S) ==
  {f \in [1..Cardinality(S) -> S] : \A i, j \in DOMAIN f : f[i] = f[j] => i = j}

\* what follows the identifier in the filename of an existing note
RestFor(cfg) ==
  IF cfg.matchRule = "strict" THEN <<>> ELSE cfg.separator \o <<"T">>

VaultOf(ids, cfg) ==
  LET sq == SetToSeq(ids)
  IN  [h \in DOMAIN sq |->
         [basename |-> sq[h] \o RestFor(cfg), dir |-> "zk", extension |-> "md"]]

InitialIdSets ==
  {S \in SUBSET IdUniverse : Cardinality(S) \in 1..MaxInitNotes}
    \cup {OutdentScenario, MoveScenario, EvacuationScenario,
          GrandchildScenario}

\* a markdown file that is no note under any match rule
PlainFile ==
  [basename |-> <<"T">>, dir |-> "zk", extension |-> "md"]

\* the vault with its last-listed note kept in the templates folder
WithSystemNote(fs) ==
  [fs EXCEPT ![Len(fs)].dir = "templates"]

\* the vaults a behaviour starts from: notes with distinct identifiers; for
\* the two scenarios also the vault with a plain file next to the notes and
\* the vault with one note in a system folder
InitialVaults(cfg) ==
  {VaultOf(ids, cfg) : ids \in InitialIdSets}
    \cup {Append(VaultOf(ids, cfg), PlainFile) :
            ids \in {OutdentScenario, MoveScenario}}
    \cup {WithSystemNote(VaultOf(ids, cfg)) :
            ids \in {OutdentScenario, MoveScenario}}

IdOf(fs, h) ==
  fileToId(fs[h].basename)

\* variant: the test for system folders is inverted
filterZettelFiles_onlySystem(fs) ==
  {h \in DOMAIN fs : fs[h].dir \in SystemDirs /\ IdOf(fs, h) # <<>>}

\* NoteService.filterZettelFiles
filterZettelFiles(fs) ==
  {h \in DOMAIN fs : fs[h].dir \notin SystemDirs /\ IdOf(fs, h) # <<>>}

\* variant: the files are compared by the parent of parentId, which lists
\* the siblings of the note instead of its children
findDirectChildren_siblings(parentId, fs, zettels) ==
  {h \in zettels : parentID(IdOf(fs, h)) = parentID(parentId)}

\* NoteService.findDirectChildren
findDirectChildren(parentId, fs, zettels) ==
  {h \in zettels : parentID(IdOf(fs, h)) = parentId}

\* variant: every markdown file passes for a zettel
isZettelFile_always(basename) ==
  TRUE

\* IDUtils.isZettelFile on basename + ".md"
isZettelFile(basename) ==
  basename # <<>> /\ fileToId(basename) # <<>>

Frame(fn, id, newId, pc, children, i, h, nb) ==
  [fn |-> fn, id |-> id, newId |-> newId, pc |-> pc, children |-> children,
   i |-> i, h |-> h, nb |-> nb]

Top ==
  stack[Len(stack)]

Below ==
  SubSeq(stack, 1, Len(stack) - 1)

\* no command has been started: a behaviour runs one command, from any of
\* the initial vaults
Idle ==
  op.kind = "none" /\ stack = <<>> /\ pending = <<>>

NoOp ==
  [kind |-> "none", h |-> 0, id |-> <<>>, newId |-> <<>>, pre |-> <<>>,
   status |-> "ok"]

(***************************************************************************)
(* Initial state                                                           *)
(***************************************************************************)
Init ==
  /\ settings \in Configs
  /\ files \in InitialVaults(settings)
  /\ stack = <<>>
  /\ pending = <<>>
  /\ op = NoOp
  /\ log = <<>>
  /\ notices = {}
  /\ calls = {}
  /\ parg = <<>>
  /\ pocc = {}
  /\ pres = <<>>
  /\ ptrace = <<>>

(***************************************************************************)
(* Hierarchy reorganisation: renameZettel, moveChildrenDown,               *)
(* moveZettelDown, outdentZettel                                           *)
(***************************************************************************)
\* variant: the character after the identifier is dropped (off by one)
restOfFilename_offByOne(basename, currentId) ==
  SubSeq(basename, Len(currentId) + 2, Len(basename))

\* renameZettel: file.basename.substring(currentId.length)
restOfFilename(basename, currentId) ==
  SubSeq(basename, Len(currentId) + 1, Len(basename))

\* FileOperationsService.renameFile: the new path keeps the folder and the
\* extension of the file
renameFile(file, newBasename) ==
  [dir |-> file.dir, basename |-> newBasename, extension |-> file.extension]

\* renameZettel(fromId, toId), called with the frames in base waiting for
\* it: the file is looked up by identifier; found, fileOps.renameFile is
\* issued and awaited; not found, a notice is shown and the call returns.
\* The log keeps the caller (by) and the file found (h, 0 for none)
renameZettel(by, fromId, toId, base) ==
  LET found == {h \in DOMAIN files : IdOf(files, h) = fromId}
  IN  IF found # {}
      THEN \E h \in found :
             LET currentId == IdOf(files, h)
                 newBasename ==
                   toId \o restOfFilename(files[h].basename, currentId)
             IN  /\ stack' = Append(base,
                       Frame("renameFile", fromId, toId, "await", <<>>, 0,
                             h, newBasename))
                 /\ log' = Append(log, [by |-> by, from |-> fromId, to |-> toId,
                                      h |-> h])
                 /\ notices' = notices
      ELSE /\ stack' = base
           /\ log' = Append(log, [by |-> by, from |-> fromId, to |-> toId,
                                h |-> 0])
           /\ notices' = notices \cup {"notFound"}

\* variant: no top-level guard
atTopLevel_never(parentId) ==
  FALSE

\* outdentZettel: if (!parentId)
atTopLevel(parentId) ==
  parentId = <<>>

\* variant: the target slot is the next sibling of the note itself
outdentNewId_ofNote(id) ==
  incrementID(id)

\* outdentZettel: the target slot, the next sibling of the current parent
outdentNewId(id) ==
  incrementID(parentID(id))

\* variant: every child is sent to the first child slot, without the search
newChildIdOf_noSearch(newId) ==
  firstChildOf(newId)

\* outdentZettel: the slot a child of the note is re-parented to
newChildIdOf(newId) ==
  firstAvailableID(firstChildOf(newId))

\* the "Outdent Zettel" command on the open file h, up to the first await
OutdentZettel(h) ==
  /\ Idle
  /\ h \in DOMAIN files
  /\ LET id == IdOf(files, h)
         parentId == parentID(id)
         newId == outdentNewId(id)
         self == Frame("outdentZettel", id, newId, "children", <<>>, 0, h, <<>>)
     IN  /\ op' = [kind |-> "outdent", h |-> h, id |-> id,
                   newId |-> IF atTopLevel(parentId) THEN <<>> ELSE newId,
                   pre |-> files, status |-> "ok"]
         /\ IF atTopLevel(parentId)
            THEN /\ notices' = {"topLevel"}
                 /\ stack' = <<>>
            ELSE /\ notices' = {}
                 /\ stack' =
                      IF doesIdExist(newId)
                      THEN <<self,
                             Frame("moveZettelDown", newId, <<>>, "start",
                                   <<>>, 0, 0, <<>>)>>
                      ELSE <<self>>
  /\ log' = <<>>
  /\ UNCHANGED <<settings, files, pending>>
  /\ UNCHANGED engineVars
  /\ calls' = {}

\* moveZettelDown(id) invoked on the note h by itself
MoveZettelDown(h) ==
  /\ Idle
  /\ h \in DOMAIN files
  /\ IdOf(files, h) # <<>>
  /\ op' = [kind |-> "move", h |-> h, id |-> IdOf(files, h), newId |-> <<>>,
            pre |-> files, status |-> "ok"]
  /\ stack' = <<Frame("moveZettelDown", IdOf(files, h), <<>>, "start", <<>>,
                      0, 0, <<>>)>>
  /\ log' = <<>>
  /\ notices' = {}
  /\ UNCHANGED <<settings, files, pending>>
  /\ UNCHANGED engineVars
  /\ calls' = {}

\* moveZettelDown(id) called with an identifier that no file has
MoveZettelDownMissing(id) ==
  /\ Idle
  /\ id \notin OccupiedIn(files)
  /\ op' = [kind |-> "moveMissing", h |-> 0, id |-> id, newId |-> <<>>,
            pre |-> files, status |-> "ok"]
  /\ stack' = <<Frame("moveZettelDown", id, <<>>, "start", <<>>, 0, 0, <<>>)>>
  /\ log' = <<>>
  /\ notices' = {}
  /\ UNCHANGED <<settings, files, pending>>
  /\ UNCHANGED engineVars
  /\ calls' = {}

\* moveZettelDown, first statement: await moveChildrenDown(id), which lists
\* the direct children of id
MoveZettelDownChildren ==
  /\ stack # <<>>
  /\ op.status = "ok"
  /\ Top.fn = "moveZettelDown"
  /\ Top.pc = "start"
  /\ \E children \in
         Orders(findDirectChildren(Top.id, files, filterZettelFiles(files))) :
       stack' = Below
                  \o <<[Top EXCEPT !.pc = "rename"],
                       Frame("moveChildrenDown", Top.id, <<>>, "loop",
                             children, 1, 0, <<>>)>>
  /\ UNCHANGED <<settings, files, pending, op, log, notices>>
  /\ UNCHANGED engineVars
  /\ UNCHANGED calls

\* moveChildrenDown, one turn of the loop: await moveZettelDown(childId)
MoveChildrenDownLoop ==
  /\ stack # <<>>
  /\ op.status = "ok"
  /\ Top.fn = "moveChildrenDown"
  /\ IF Top.i <= Len(Top.children)
     THEN LET childId == IdOf(files, Top.children[Top.i])
          IN  stack' = Below
                         \o <<[Top EXCEPT !.i = Top.i + 1],
                              Frame("moveZettelDown", childId, <<>>, "start",
                                    <<>>, 0, 0, <<>>)>>
     ELSE stack' = Below
  /\ UNCHANGED <<settings, files, pending, op, log, notices>>
  /\ UNCHANGED engineVars
  /\ UNCHANGED calls

\* variant: the note moves to its next sibling without the search
nextAvailableIdOf_noSearch(id) ==
  incrementID(id)

\* moveZettelDown: the search for the new identifier starts at id itself
nextAvailableIdOf(id) ==
  firstAvailableID(id)

\* moveZettelDown, after the children: the next free identifier is searched
\* and the note is renamed to it
MoveZettelDownRename ==
  /\ stack # <<>>
  /\ op.status = "ok"
  /\ Top.fn = "moveZettelDown"
  /\ Top.pc = "rename"
  /\ LET nextAvailableId == nextAvailableIdOf(Top.id)
     IN  IF nextAvailableId = Diverges
         THEN /\ op' = [op EXCEPT !.status = "hung"]
              /\ UNCHANGED <<stack, log, notices>>
         ELSE /\ renameZettel("moveZettelDown", Top.id, nextAvailableId, Below)
              /\ op' = op
  /\ UNCHANGED <<settings, files, pending>>
  /\ UNCHANGED engineVars
  /\ calls' = calls \cup {Top.id}

\* outdentZettel after the target slot is vacated: the direct children of id
\* are listed
OutdentChildren ==
  /\ stack # <<>>
  /\ op.status = "ok"
  /\ Top.fn = "outdentZettel"
  /\ Top.pc = "children"
  /\ \E children \in
         Orders(findDirectChildren(Top.id, files, filterZettelFiles(files))) :
       stack' = Below \o <<[Top EXCEPT !.pc = "loop", !.children = children,
                                       !.i = 1]>>
  /\ UNCHANGED <<settings, files, pending, op, log, notices>>
  /\ UNCHANGED engineVars
  /\ UNCHANGED calls

\* outdentZettel, one turn of the loop over the children: the child goes to
\* the first free child identifier of newId
OutdentLoop ==
  /\ stack # <<>>
  /\ op.status = "ok"
  /\ Top.fn = "outdentZettel"
  /\ Top.pc = "loop"
  /\ IF Top.i <= Len(Top.children)
     THEN LET childId == IdOf(files, Top.children[Top.i])
              newChildId == newChildIdOf(Top.newId)
          IN  IF newChildId = Diverges
              THEN /\ op' = [op EXCEPT !.status = "hung"]
                   /\ UNCHANGED <<stack, log, notices>>
              ELSE /\ renameZettel("outdentChild", childId, newChildId,
                        Below \o <<[Top EXCEPT !.i = Top.i + 1]>>)
                   /\ op' = op
     ELSE /\ stack' = Below \o <<[Top EXCEPT !.pc = "self"]>>
          /\ UNCHANGED <<op, log, notices>>
  /\ UNCHANGED <<settings, files, pending>>
  /\ UNCHANGED engineVars
  /\ calls' = IF Top.i <= Len(Top.children)
              THEN calls \cup {firstChildOf(Top.newId)}
              ELSE calls

\* outdentZettel, last statement: the note itself is renamed to newId
OutdentSelf ==
  /\ stack # <<>>
  /\ op.status = "ok"
  /\ Top.fn = "outdentZettel"
  /\ Top.pc = "self"
  /\ renameZettel("outdentSelf", Top.id, Top.newId, Below)
  /\ UNCHANGED <<settings, files, pending, op>>
  /\ UNCHANGED engineVars
  /\ UNCHANGED calls

\* fileManager.renameFile resolves: the file has its new name, in its folder
RenameFileDone ==
  /\ stack # <<>>
  /\ op.status = "ok"
  /\ Top.fn = "renameFile"
  /\ \A g \in DOMAIN files :
       g # Top.h => files[g] # renameFile(files[Top.h], Top.nb)
  /\ files' = [files EXCEPT ![Top.h] = renameFile(files[Top.h], Top.nb)]
  /\ stack' = Below
  /\ UNCHANGED <<settings, pending, op, log, notices>>
  /\ UNCHANGED engineVars
  /\ UNCHANGED calls

\* fileManager.renameFile rejects: the await in renameFile and the one in
\* renameZettel throw, and the rejection goes to the method that awaits
\* renameZettel
RenameFileFail ==
  /\ stack # <<>>
  /\ op.status = "ok"
  /\ Top.fn = "renameFile"
  /\ stack' = Below
  /\ op' = [op EXCEPT !.status = "failed"]
  /\ UNCHANGED <<settings, files, pending, log, notices>>
  /\ UNCHANGED engineVars
  /\ UNCHANGED calls

\* variant: the loops over the children catch a rejection and go on
catchesRejection_inLoops(fn) ==
  fn \in {"moveChildrenDown", "outdentZettel"}

\* the method has a try/catch around its awaits: none has
catchesRejection(fn) ==
  FALSE

\* a rejection reaches the method on top of the stack: its await throws,
\* and without a try/catch the method ends, rejecting its own promise
Unwind ==
  /\ stack # <<>>
  /\ op.status = "failed"
  /\ IF catchesRejection(Top.fn)
     THEN /\ op' = [op EXCEPT !.status = "ok"]
          /\ stack' = stack
     ELSE /\ op' = op
          /\ stack' = Below
  /\ UNCHANGED <<settings, files, pending, log, notices>>
  /\ UNCHANGED engineVars
  /\ UNCHANGED calls

(***************************************************************************)
(* Note creation: executeNoteCreation, createNote                          *)
(***************************************************************************)
\* NoteService.generateSiblingId / generateChildId on the open file
generateId(kind, currentFile) ==
  LET currentId == fileToId(currentFile.basename)
  IN  IF kind = "sibling" THEN makeNoteForNextSiblingOfID(currentId)
      ELSE makeNoteForNextChildOfID(currentId)

\* buildPath of executeNoteCreation under the settings cfg, without folder
\* and extension
buildPath(cfg, newNoteId, title) ==
  LET separator == IF cfg.addTitle THEN cfg.separator ELSE <<>>
      titlePart == IF cfg.addTitle THEN title ELSE <<>>
  IN  newNoteId \o separator \o titlePart

\* buildPath under the settings of the running plugin
buildBasename(newNoteId, title) ==
  buildPath(settings, newNoteId, title)

\* the "New Sibling/Child Zettel Note" command on the open file h: the
\* identifier is generated now, the file is created by a later createNote
ExecuteNoteCreation(h, kind) ==
  /\ Idle
  /\ h \in DOMAIN files
  /\ LET newNoteId == generateId(kind, files[h])
         valid == isZettelFile(files[h].basename)
     IN  /\ op' = [kind |-> kind, h |-> h, id |-> IdOf(files, h),
                   newId |-> IF valid THEN newNoteId ELSE <<>>,
                   pre |-> files,
                   status |-> IF valid /\ newNoteId = Diverges
                              THEN "hung" ELSE "ok"]
         /\ notices' = IF valid THEN {} ELSE {"noId"}
         /\ pending' = IF valid /\ newNoteId # Diverges
                       THEN <<[id |-> newNoteId, from |-> h]>>
                       ELSE <<>>
  /\ log' = <<>>
  /\ UNCHANGED <<settings, files, stack>>
  /\ UNCHANGED engineVars
  /\ calls' = IF ~isZettelFile(files[h].basename) THEN {}
              ELSE IF kind = "sibling"
                   THEN {incrementID(fileToId(files[h].basename))}
                   ELSE {firstChildOf(fileToId(files[h].basename))}

\* createNote for the pending creation k, with the title entered and the
\* folder Obsidian picks for new files: vault.create refuses an existing path
CreateNote(k, title, dir) ==
  /\ k \in DOMAIN pending
  /\ op.status = "ok"
  /\ LET basename == buildBasename(pending[k].id, title)
         exists == \E g \in DOMAIN files :
                     files[g].dir = dir /\ files[g].basename = basename
     IN  IF exists
         THEN /\ notices' = notices \cup {"createFailed"}
              /\ files' = files
         ELSE /\ notices' = notices
              /\ files' = Append(files, [basename |-> basename, dir |-> dir,
                                         extension |-> "md"])
  /\ pending' = SubSeq(pending, 1, k - 1) \o SubSeq(pending, k + 1, Len(pending))
  /\ UNCHANGED <<settings, stack, op, log>>
  /\ UNCHANGED engineVars
  /\ UNCHANGED calls

\* the title modal is dismissed, or the template is refused: no file
CancelCreate(k) ==
  /\ k \in DOMAIN pending
  /\ op.status = "ok"
  /\ pending' = SubSeq(pending, 1, k - 1) \o SubSeq(pending, k + 1, Len(pending))
  /\ notices' = notices \cup {"cancelled"}
  /\ UNCHANGED <<settings, files, stack, op, log>>
  /\ UNCHANGED engineVars
  /\ UNCHANGED calls

(***************************************************************************)
(* The plugin running one command                                         *)
(***************************************************************************)
Next ==
  \/ \E h \in DOMAIN files : OutdentZettel(h)
  \/ \E h \in DOMAIN files : MoveZettelDown(h)
  \/ \E id \in IdUniverse : MoveZettelDownMissing(id)
  \/ MoveZettelDownChildren
  \/ MoveChildrenDownLoop
  \/ MoveZettelDownRename
  \/ OutdentChildren
  \/ OutdentLoop
  \/ OutdentSelf
  \/ RenameFileDone
  \/ RenameFileFail
  \/ Unwind
  \/ \E h \in DOMAIN files, kind \in {"sibling", "child"} :
       ExecuteNoteCreation(h, kind)
  \/ \E k \in DOMAIN pending, title \in Titles, dir \in Dirs :
       CreateNote(k, title, dir)
  \/ \E k \in DOMAIN pending : CancelCreate(k)

Spec ==
  Init /\ [][Next]_vars

(***************************************************************************)
(* Two creation commands in flight                                         *)
(***************************************************************************)
\* a second "New Sibling/Child Zettel Note" command, on the file h that is
\* still open, started while the first one waits for its title or its
\* template: the identifier is generated from the vault as it is now
ExecuteNoteCreationMeanwhile(h, kind) ==
  /\ op.kind \in {"sibling", "child"}
  /\ op.status = "ok"
  /\ Len(pending) = 1
  /\ files = op.pre
  /\ h = op.h
  /\ LET newNoteId == generateId(kind, files[h])
         valid == isZettelFile(files[h].basename)
     IN  /\ op' = IF valid /\ newNoteId = Diverges
                   THEN [op EXCEPT !.status = "hung"] ELSE op
         /\ notices' = IF valid THEN notices ELSE notices \cup {"noId"}
         /\ pending' = IF valid /\ newNoteId # Diverges
                       THEN Append(pending, [id |-> newNoteId, from |-> h])
                       ELSE pending
  /\ calls' = IF ~isZettelFile(files[h].basename) THEN calls
              ELSE IF kind = "sibling"
                   THEN calls \cup {incrementID(fileToId(files[h].basename))}
                   ELSE calls \cup {firstChildOf(fileToId(files[h].basename))}
  /\ UNCHANGED <<settings, files, stack, log>>
  /\ UNCHANGED engineVars

NextConcurrent ==
  \/ \E h \in DOMAIN files, kind \in {"sibling", "child"} :
       ExecuteNoteCreation(h, kind)
  \/ \E h \in DOMAIN files, kind \in {"sibling", "child"} :
       ExecuteNoteCreationMeanwhile(h, kind)
  \/ \E k \in DOMAIN pending, title \in Titles, dir \in Dirs :
       CreateNote(k, title, dir)

SpecConcurrent ==
  Init /\ [][NextConcurrent]_vars

(***************************************************************************)
(* The identifier engine on its own: an input string, and the engine       *)
(* functions applied to it one after the other                             *)
(***************************************************************************)
\* length of an input string
MaxLen == 3

\* the engine functions and compositions of two of them that are applied
Compositions ==
  { <<"incrementIDComponent">>, <<"incrementID">>, <<"parentID">>,
    <<"firstChildOf">>, <<"firstAvailableID">>, <<"fileToId">>,
    <<"incrementID", "parentID">>, <<"firstChildOf", "parentID">>,
    <<"buildPath", "fileToId">> }

\* length of the increment chain the occupied identifiers are drawn from
MaxChain == 3

\* characters of the input strings: digits with and without carry, letters
\* with and without overflow, and a character outside the grammar
EngineAlphabet ==
  { "0", "1", "9", "a", "z", "-" }

StringsUpTo(n, alphabet) ==
  UNION {[1..k -> alphabet] : k \in 0..n}

\* every single letter (the whole successor table) and the short strings
EngineInputs ==
  StringsUpTo(MaxLen, EngineAlphabet)
    \cup {<<c>> : c \in DOMAIN lettersIDComponentSuccessors}
    \cup {<<"1", "a">> \o <<c>> \o <<"T">> : c \in {".", "|", "(", "*"}}
    \cup {toString(TwoTo53), <<"1", "a">> \o toString(TwoTo53),
          toString(SubSeq(TwoTo53, 1, 15) \o <<1>>)}

\* separators typed into the settings tab
EngineSeparators ==
  { <<"-">>, <<"-", "-">>, <<>>, <<"a">>, <<".">>, <<"|">>, <<"(">>, <<"*">> }

\* the settings an IDUtils is built with
EngineConfigs ==
  [matchRule : {"strict", "separator", "fuzzy"},
   separator : EngineSeparators,
   addTitle : {FALSE}]

\* start, incrementID(start), ... : n elements
RECURSIVE Chain(_, _)
Chain(start, n) ==
  IF n = 0 THEN {} ELSE {start} \cup Chain(incrementID(start), n - 1)

\* matchRule and addTitle of DEFAULT_SETTINGS; the separator, which the
\* strict rule does not read, is written "-"
DefaultConfig ==
  [matchRule |-> "strict", separator |-> <<"-">>, addTitle |-> FALSE]

EngineInit ==
  /\ parg \in EngineInputs
  /\ pres = parg
  /\ pocc = {}
  /\ ptrace = <<>>
  /\ settings = DefaultConfig
  /\ files = <<>>
  /\ stack = <<>>
  /\ pending = <<>>
  /\ op = NoOp
  /\ log = <<>>
  /\ notices = {}
  /\ calls = {}

Applied(fn, value) ==
  /\ \E c \in Compositions :
       /\ Len(c) > Len(ptrace)
       /\ SubSeq(c, 1, Len(ptrace) + 1) = Append(ptrace, fn)
  /\ pres # Diverges
  /\ pres' = value
  /\ ptrace' = Append(ptrace, fn)
  /\ UNCHANGED parg
  /\ UNCHANGED <<files, stack, pending, op, log, notices, calls>>

ApplyIncrementIDComponent ==
  /\ Applied("incrementIDComponent", incrementIDComponent(pres))
  /\ UNCHANGED <<pocc, settings>>

ApplyIncrementID ==
  /\ Applied("incrementID", incrementID(pres))
  /\ UNCHANGED <<pocc, settings>>

ApplyParentID ==
  /\ Applied("parentID", parentID(pres))
  /\ UNCHANGED <<pocc, settings>>

ApplyFirstChildOf ==
  /\ Applied("firstChildOf", firstChildOf(pres))
  /\ UNCHANGED <<pocc, settings>>

\* the existence predicate is true of the identifiers in occupied
ApplyFirstAvailableID ==
  \E occupied \in SUBSET Chain(pres, MaxChain) :
    /\ Applied("firstAvailableID", firstAvailableIDIn(pres, occupied))
    /\ pocc' = occupied
    /\ UNCHANGED settings

\* the settings a note is created under: every rule, with and without title
BuildConfigs ==
  [matchRule : {"strict", "separator", "fuzzy"},
   separator : {<<"-">>, <<".">>},
   addTitle : BOOLEAN]

\* fileToId of an IDUtils built with the settings cfg; the name of a new note
\* is parsed under the settings it was built with
ApplyFileToId ==
  \E cfg \in IF ptrace = <<>> THEN EngineConfigs ELSE {settings} :
    /\ Applied("fileToId",
               fileToIdUnder(pres, cfg.matchRule, cfg.separator))
    /\ settings' = cfg
    /\ UNCHANGED pocc

\* the basename executeNoteCreation builds for the generated identifier
ApplyBuildPath ==
  \E cfg \in BuildConfigs, title \in Titles :
    /\ Applied("buildPath", buildPath(cfg, pres, title))
    /\ settings' = cfg
    /\ UNCHANGED pocc

EngineNext ==
  \/ ApplyFileToId
  \/ ApplyBuildPath
  \/ ApplyIncrementIDComponent
  \/ ApplyIncrementID
  \/ ApplyParentID
  \/ ApplyFirstChildOf
  \/ ApplyFirstAvailableID

SpecEngine ==
  EngineInit /\ [][EngineNext]_vars

(***************************************************************************)
(* Properties                                                              *)
(***************************************************************************)
\* no two files of fs have the same non-empty identifier
UniqueIds(fs) ==
  \A g, h \in DOMAIN fs :
    (g # h /\ IdOf(fs, g) # <<>>) => IdOf(fs, g) # IdOf(fs, h)

NumComponents(id) ==
  Len(idOnlyRegex(id))

\* non-empty and made of digits and lowercase letters only
WellFormed(id) ==
  id # <<>> /\ \A i \in 1..Len(id) : IsIdChar(id[i])

\* incrementID applied k times
RECURSIVE IncrementTimes(_, _)
IncrementTimes(k, id) ==
  IF k = 0 THEN id ELSE IncrementTimes(k - 1, incrementID(id))

\* c is the k-th element of the increment chain of start for some k <= n,
\* c is free and every earlier element of the chain is occupied
IsFirstFree(c, start, occupied, n) ==
  \E k \in 0..n :
    /\ c = IncrementTimes(k, start)
    /\ c \notin occupied
    /\ \A j \in 0..(k - 1) : IncrementTimes(j, start) \in occupied

\* the command of this kind has run to its end without a rejected rename
Completed(kind) ==
  /\ op.kind = kind
  /\ op.status = "ok"
  /\ stack = <<>>
  /\ pending = <<>>

\* the renameZettel call that is waiting for its rename
LastRename ==
  log[Len(log)]

Alphabet ==
  <<"a", "b", "c", "d", "e", "f", "g", "h", "i", "j", "k", "l", "m",
    "n", "o", "p", "q", "r", "s", "t", "u", "v", "w", "x", "y", "z">>

\* the letter after c in the alphabet, "aa" after "z"
LetterAfter(c) ==
  IF c = "z" THEN <<"a", "a">>
  ELSE <<Alphabet[(CHOOSE i \in 1..26 : Alphabet[i] = c) + 1]>>

\* C1: in every state of a run of one-at-a-time commands that starts from a
\* vault with distinct identifiers, no two notes have the same identifier
C1_NoSharedIdentifier ==
  UniqueIds(files)

\* C2: firstAvailableID(startId) is the first element of the increment chain
\* of startId that is not occupied: it is free, every earlier element is
\* occupied, startId is returned when free; {1,2,3} and "1" give "4"; the
\* search fails to return only when no element of the chain is free
C2_FirstAvailableIsFirstFree ==
  ptrace = <<"firstAvailableID">> =>
    /\ pres # Diverges => IsFirstFree(pres, parg, pocc, MaxChain)
    /\ parg \notin pocc => pres = parg
    /\ (parg = <<"1">> /\ pocc = {<<"1">>, <<"2">>, <<"3">>}) => pres = <<"4">>
    /\ pres = Diverges =>
         \A k \in 0..MaxChain : IncrementTimes(k, parg) \in pocc

C2_Witness ==
  /\ ptrace = <<"firstAvailableID">>
  /\ parg = <<"1">>
  /\ pocc = {<<"1">>, <<"2">>, <<"3">>}
  /\ pres = <<"4">>

C5_OutdentTarget ==
  (Completed("outdent") /\ NumComponents(op.id) >= 2 /\ UniqueIds(op.pre)) =>
    /\ IdOf(files, op.h) = incrementID(parentID(op.id))
    /\ parentID(IdOf(files, op.h)) = parentID(parentID(op.id))

C5_Witness ==
  /\ Completed("outdent")
  /\ NumComponents(op.id) >= 2
  /\ incrementID(parentID(op.id)) \in OccupiedIn(op.pre)
  /\ IdOf(files, op.h) = incrementID(parentID(op.id))

\* C6: outdent on an identifier without parent (no or one component) shows
\* "already at top level", calls no rename and leaves the vault as it was
C6_OutdentTopLevel ==
  (op.kind = "outdent" /\ parentID(op.id) = <<>>) =>
    /\ notices = {"topLevel"}
    /\ stack = <<>>
    /\ log = <<>>
    /\ files = op.pre

C6_Witness ==
  /\ op.kind = "outdent"
  /\ NumComponents(op.id) = 1
  /\ notices = {"topLevel"}

\* C7: moveZettelDown(id) renames the note id to the first free identifier
\* of the increment chain of id, searched from id itself in the vault as it
\* is once the children have moved; id being occupied, that is an identifier
\* after id; with 2, 2a and 3 in the vault the note 2 ends at 4
C7_MoveTarget ==
  /\ (stack # <<>> /\ Top.fn = "renameFile" /\ LastRename.by = "moveZettelDown")
       => LET occupied == OccupiedIn(files)
          IN  /\ LastRename.from \in occupied
              /\ IsFirstFree(LastRename.to, LastRename.from, occupied,
                             Len(files))
              /\ LastRename.to # LastRename.from
              /\ fileToId(Top.nb) = LastRename.to
  /\ (Completed("move") /\ UniqueIds(op.pre))
       => /\ LastRename.from = op.id
          /\ IdOf(files, op.h) = LastRename.to
          /\ (OccupiedIn(op.pre) = MoveScenario /\ op.id = <<"2">>)
               => IdOf(files, op.h) = <<"4">>

C7_Witness ==
  /\ Completed("move")
  /\ OccupiedIn(op.pre) = MoveScenario
  /\ op.id = <<"2">>
  /\ IdOf(files, op.h) = <<"4">>

C9_ChildRoundTrip ==
  (ptrace = <<"firstChildOf", "parentID">>
     /\ \A i \in 1..Len(parg) : IsIdChar(parg[i])) =>
    pres = parg

C9_Witness ==
  /\ ptrace = <<"firstChildOf", "parentID">>
  /\ parg = <<"1", "a">>
  /\ pres = <<"1", "a">>

\* C10: incrementing a non-empty component of lowercase letters replaces
\* its last letter by the next one, "z" by "aa", and keeps the letters
\* before it: "a" gives "b", "z" gives "aa", "az" gives "aaa"
C10_LetterIncrement ==
  (ptrace = <<"incrementIDComponent">>
     /\ parg # <<>> /\ \A i \in 1..Len(parg) : IsLetter(parg[i])) =>
    /\ pres = SubSeq(parg, 1, Len(parg) - 1) \o LetterAfter(parg[Len(parg)])
    /\ parg = <<"a">> => pres = <<"b">>
    /\ parg = <<"z">> => pres = <<"a", "a">>
    /\ parg = <<"a", "z">> => pres = <<"a", "a", "a">>

C10_Witness ==
  /\ ptrace = <<"incrementIDComponent">>
  /\ parg = <<"a", "z">>
  /\ pres = <<"a", "a", "a">>

\* C11: for a non-empty identifier p of digits and lowercase letters,
\* firstChildOf(p) is p followed by "a" when the last component of p is a
\* number and by "1" when it is made of letters, so the result has one more
\* component, of the other kind: "1" gives "1a" and "1a" gives "1a1"
C11_FirstChildAlternates ==
  (ptrace = <<"firstChildOf">> /\ WellFormed(parg)) =>
    LET last == parg[Len(parg)]
        parts == idOnlyRegex(pres)
    IN  /\ IsDigit(last) => pres = parg \o <<"a">>
        /\ IsLetter(last) => pres = parg \o <<"1">>
        /\ Len(parts) = NumComponents(parg) + 1
        /\ isNumber(parts[Len(parts)]) = IsLetter(last)
        /\ parg = <<"1">> => pres = <<"1", "a">>
        /\ parg = <<"1", "a">> => pres = <<"1", "a", "1">>

C11_Witness ==
  /\ ptrace = <<"firstChildOf">>
  /\ parg = <<"1", "a">>
  /\ pres = <<"1", "a", "1">>

\* the filename is one or more digit/letter runs immediately followed by the
\* separator as it is written, the first n characters being the runs
LiteralSeparatorAt(filename, n, sep) ==
  /\ n \in 1..IdPrefixLen(filename)
  /\ n + Len(sep) <= Len(filename)
  /\ SubSeq(filename, n + 1, n + Len(sep)) = sep

\* C12: under the separator rule fileToId returns a non-empty identifier
\* only for a filename made of digit/letter runs immediately followed by
\* the separator taken as a literal string, the identifier being those
\* runs, and returns "" for every other filename, whatever the separator
C12_SeparatorIsLiteral ==
  (ptrace = <<"fileToId">> /\ settings.matchRule = "separator") =>
    IF \E n \in 1..Len(parg) : LiteralSeparatorAt(parg, n, settings.separator)
    THEN pres = <<>>
           \/ \E n \in 1..Len(parg) :
                /\ LiteralSeparatorAt(parg, n, settings.separator)
                /\ pres = SubSeq(parg, 1, n)
    ELSE pres = <<>>

\* C13: for a start identifier with at least one component and a finite set
\* of occupied identifiers, firstAvailableID(start) returns
C13_FirstAvailableTerminates ==
  (ptrace = <<"firstAvailableID">> /\ NumComponents(parg) >= 1) =>
    pres # Diverges

\* C14: when the rename issued by renameZettel(fromId, toId) on the note with
\* identifier fromId takes effect, the new basename of the note is toId
\* followed by the text that followed the identifier in the old basename,
\* the folder and the extension are kept, and the new basename parses to toId
C14_RenameKeepsRest ==
  [][(stack # <<>> /\ Top.fn = "renameFile" /\ files' # files) =>
       LET old == files[Top.h]
           new == files'[Top.h]
           fromId == fileToId(old.basename)
       IN  /\ fromId = Top.id
           /\ new.basename
                = Top.newId
                    \o SubSeq(old.basename, Len(fromId) + 1, Len(old.basename))
           /\ new.dir = old.dir
           /\ new.extension = old.extension
           /\ fileToId(new.basename) = Top.newId]_vars

C14_Witness ==
  /\ Completed("move")
  /\ settings.matchRule = "separator"
  /\ files[op.h].basename = LastRename.to \o settings.separator \o <<"T">>
  /\ files[op.h].basename # op.pre[op.h].basename
  /\ files[op.h].dir = "templates"

\* the notes that are direct children of id in the vault fs
ChildrenIn(fs, id) ==
  {h \in DOMAIN fs :
     /\ fs[h].dir \notin SystemDirs
     /\ fileToId(fs[h].basename) # <<>>
     /\ parentID(fileToId(fs[h].basename)) = id}

\* C15: in an outdent of the note id, each rename of a child goes to an
\* identifier that no file has at that moment and whose parent is newId =
\* incrementID(parentID(id)); when the outdent has completed, every note that
\* was a direct child of id before it has an identifier whose parent is
\* newId, and these identifiers are pairwise distinct
C15_ChildrenReparented ==
  LET newId == incrementID(parentID(op.id))
      kids == ChildrenIn(op.pre, op.id)
  IN  /\ (op.kind = "outdent" /\ stack # <<>> /\ Top.fn = "renameFile"
            /\ LastRename.by = "outdentChild" /\ UniqueIds(op.pre))
           => /\ LastRename.h \in kids
              /\ LastRename.to \notin OccupiedIn(files)
              /\ parentID(LastRename.to) = newId
      /\ (Completed("outdent") /\ NumComponents(op.id) >= 2
            /\ UniqueIds(op.pre))
           => /\ \A h \in kids : parentID(IdOf(files, h)) = newId
              /\ \A g, h \in kids : g # h => IdOf(files, g) # IdOf(files, h)

C15_Witness ==
  /\ Completed("outdent")
  /\ OccupiedIn(op.pre) = EvacuationScenario
  /\ Cardinality(ChildrenIn(op.pre, op.id)) = 2
  /\ firstChildOf(incrementID(parentID(op.id))) \in OccupiedIn(op.pre)
  /\ \A h \in ChildrenIn(op.pre, op.id) :
       parentID(IdOf(files, h)) = incrementID(parentID(op.id))

\* the notes below id in the tree the identifiers of fs induce: its direct
\* children and their descendants
RECURSIVE DescendantsIn(_, _)
DescendantsIn(fs, id) ==
  LET kids == ChildrenIn(fs, id)
  IN  kids \cup UNION {DescendantsIn(fs, fileToId(fs[k].basename)) : k \in kids}

\* the file at the identifier id in fs together with its descendants
SubtreeIn(fs, id) ==
  {h \in DOMAIN fs : fileToId(fs[h].basename) = id} \cup DescendantsIn(fs, id)

\* C16: in an outdent whose target newId = incrementID(parentID(id)) was
\* occupied, whenever a rename of another note to newId or to a child
\* identifier of newId is issued, the occupant of newId and each of its
\* descendants has already been renamed, to an identifier other than its own
C16_EvacuationFirst ==
  LET newId == incrementID(parentID(op.id))
      evacuees == SubtreeIn(op.pre, newId)
  IN  (op.kind = "outdent" /\ NumComponents(op.id) >= 2
         /\ newId \in OccupiedIn(op.pre) /\ UniqueIds(op.pre))
        => \A k \in DOMAIN log :
             (/\ log[k].h # 0
              /\ log[k].h \notin evacuees
              /\ (log[k].to = newId \/ parentID(log[k].to) = newId))
               => \A e \in evacuees :
                    /\ \E j \in 1..(k - 1) :
                         /\ log[j].h = e
                         /\ log[j].to # log[j].from
                         /\ log[j].from = IdOf(op.pre, e)
                    /\ IdOf(files, e) # IdOf(op.pre, e)

C16_Witness ==
  /\ Completed("outdent")
  /\ OccupiedIn(op.pre) = EvacuationScenario
  /\ op.id = <<"1", "a">>
  /\ IdOf(files, op.h) = <<"2">>
  /\ \A e \in SubtreeIn(op.pre, <<"2">>) : IdOf(files, e) # IdOf(op.pre, e)
  /\ Cardinality(SubtreeIn(op.pre, <<"2">>)) = 3

\* C17: whenever moveZettelDown computes the new identifier of a note and
\* issues its rename, every descendant of the note has been renamed before,
\* each rename having taken effect: the children first, then the node
C17_ChildrenBeforeNode ==
  op.kind \in {"move", "moveMissing", "outdent"} =>
    \A k \in DOMAIN log :
      (log[k].by = "moveZettelDown" /\ log[k].h # 0 /\ UniqueIds(op.pre)) =>
        \A d \in DescendantsIn(op.pre, IdOf(op.pre, log[k].h)) :
          /\ \E j \in 1..(k - 1) : log[j].h = d /\ log[j].by = "moveZettelDown"
          /\ IdOf(files, d) # IdOf(op.pre, d)
          /\ ~(stack # <<>> /\ Top.fn = "renameFile" /\ Top.h = d)

C17_Witness ==
  /\ op.kind = "move"
  /\ OccupiedIn(op.pre) = EvacuationScenario
  /\ op.id = <<"2">>
  /\ stack # <<>>
  /\ Top.fn = "renameFile"
  /\ Top.h = op.h
  /\ Len(log) = 3
  /\ \A d \in DescendantsIn(op.pre, op.id) : IdOf(files, d) # IdOf(op.pre, d)

\* the files an outdent of the note h with identifier id may rename in the
\* vault fs: the note, its direct children and, when newId is occupied, the
\* occupant of newId with its descendants; none for a top-level note
OutdentFrame(fs, h, id) ==
  LET newId == incrementID(parentID(id))
  IN  IF parentID(id) = <<>> THEN {}
      ELSE {h} \cup ChildrenIn(fs, id)
             \cup (IF newId \in OccupiedIn(fs) THEN SubtreeIn(fs, newId) ELSE {})

\* C18: during and after an outdent of the note id, renameZettel is called
\* only on the note, its direct children and, when newId was occupied, the
\* occupant of newId and its descendants; every other file has the name it
\* had before; with 1, 1a, 1a1, 1a2, 1b the outdent of 1a1 ends with
\* 1, 1a, 1a2, 1b (the former 1a1) and 1c (the former 1b)
C18_OutdentFrame ==
  (op.kind = "outdent" /\ UniqueIds(op.pre)) =>
    LET frame == OutdentFrame(op.pre, op.h, op.id)
    IN  /\ \A k \in DOMAIN log : log[k].h \in frame
        /\ DOMAIN files = DOMAIN op.pre
        /\ \A h \in DOMAIN op.pre : h \notin frame => files[h] = op.pre[h]
        /\ (Completed("outdent") /\ OccupiedIn(op.pre) = OutdentScenario
              /\ op.id = <<"1", "a", "1">>)
             => /\ IdOf(files, op.h) = <<"1", "b">>
                /\ \A h \in DOMAIN files :
                     IdOf(op.pre, h) = <<"1", "b">>
                       => IdOf(files, h) = <<"1", "c">>
                /\ \A h \in DOMAIN files :
                     IdOf(op.pre, h) \in {<<"1">>, <<"1", "a">>, <<"1", "a", "2">>}
                       => files[h] = op.pre[h]

C18_Witness ==
  /\ Completed("outdent")
  /\ OccupiedIn(op.pre) = OutdentScenario
  /\ op.id = <<"1", "a", "1">>
  /\ OccupiedIn(files)
       = {<<"1">>, <<"1", "a">>, <<"1", "a", "2">>, <<"1", "b">>, <<"1", "c">>}
  /\ IdOf(files, op.h) = <<"1", "b">>

\* C19: once fileManager.renameFile has rejected during a moveZettelDown or
\* an outdent, no renameZettel call is made and no file changes any more,
\* the rejection is never swallowed and each waiting method ends in turn, up
\* to the command; the renames completed before the failure are in effect
\* (no rollback) and the note whose rename failed has its old identifier
C19_RenameFailureStops ==
  /\ [](op.status = "failed" =>
          /\ op.kind \in {"move", "moveMissing", "outdent"}
          /\ log # <<>>
          /\ \A k \in 1..(Len(log) - 1) :
               log[k].h # 0 => IdOf(files, log[k].h) = log[k].to
          /\ IdOf(files, LastRename.h) = LastRename.from)
  /\ [][(op.status = "failed" \/ op'.status = "failed") =>
          /\ op'.status = "failed"
          /\ files' = files
          /\ log' = log
          /\ stack' = SubSeq(stack, 1, Len(stack) - 1)]_vars

C19_Witness ==
  /\ op.status = "failed"
  /\ op.kind = "outdent"
  /\ stack = <<>>
  /\ Len(log) >= 3
  /\ files # op.pre
  /\ IdOf(files, op.h) = op.id

\* C20: when renameZettel(fromId, toId) finds no file with the identifier
\* fromId, the call ends as a failure for the method awaiting it, no rename
\* is issued by it, the files are what they were, and the reorganisation it
\* is part of makes no renameZettel call after it
C20_NotFoundIsFailure ==
  \A k \in DOMAIN log :
    log[k].h = 0 =>
      /\ "notFound" \in notices
      /\ op.status = "failed"
      /\ k = Len(log)
      /\ ~(stack # <<>> /\ Top.fn = "renameFile")
      /\ \A h \in DOMAIN files :
           (\A j \in 1..(k - 1) : log[j].h # h) => files[h] = op.pre[h]

\* the last component of id, <<>> when it has none
LastComponent(id) ==
  LET parts == idOnlyRegex(id)
  IN  IF parts = <<>> THEN <<>> ELSE parts[Len(parts)]

\* s ends with the characters of suffix
EndsWith(s, suffix) ==
  /\ Len(s) >= Len(suffix)
  /\ SubSeq(s, Len(s) - Len(suffix) + 1, Len(s)) = suffix

\* C21 as stated: incrementing the letter component "zz" gives "zza", and
\* incrementID of an identifier whose last component is "zz" ends in "zza"
C21_ZzGivesZza ==
  /\ (ptrace = <<"incrementIDComponent">> /\ parg = <<"z", "z">>)
       => pres = <<"z", "z", "a">>
  /\ (ptrace = <<"incrementID">> /\ LastComponent(parg) = <<"z", "z">>)
       => EndsWith(pres, <<"z", "z", "a">>)

\* C21 amended: incrementing the letter component "zz" gives "zaa" (the
\* last "z" becomes "aa", the first is kept; the result is not "aaa"), and
\* incrementID of an identifier whose last component is "zz" is the
\* components before it followed by "zaa"
C21_ZzGivesZaa ==
  /\ (ptrace = <<"incrementIDComponent">> /\ parg = <<"z", "z">>)
       => pres = <<"z", "a", "a">>
  /\ (ptrace = <<"incrementID">> /\ LastComponent(parg) = <<"z", "z">>)
       => LET parts == idOnlyRegex(parg)
          IN  pres = Join(SubSeq(parts, 1, Len(parts) - 1)) \o <<"z", "a", "a">>

C21_Witness ==
  /\ ptrace = <<"incrementID">>
  /\ parg = <<"1", "z", "z">>
  /\ pres = <<"1", "z", "a", "a">>

\* C22: for an identifier without any digit or letter run, the empty one
\* included, the first-child seed is "1": firstChildOf appends "1" to it,
\* and firstChildOf("") is "1"
C22_EmptySeedIsOne ==
  (ptrace = <<"firstChildOf">> /\ NumComponents(parg) = 0) =>
    /\ pres = parg \o <<"1">>
    /\ parg = <<>> => pres = <<"1">>

\* C23: when moveZettelDown(id) has completed and moved the note at id to
\* toId, every note that was a direct child of id before the call has an
\* identifier whose parent is toId
C23_ChildrenFollowMove ==
  (Completed("move") /\ UniqueIds(op.pre)) =>
    \A h \in ChildrenIn(op.pre, op.id) :
      parentID(IdOf(files, h)) = IdOf(files, op.h)

\* anc is reached from id by dropping last components, once or more
RECURSIVE HasAncestor(_, _)
HasAncestor(id, anc) ==
  IF idOnlyRegex(id) = <<>> THEN FALSE
  ELSE parentID(id) = anc \/ HasAncestor(parentID(id), anc)

\* C24: when outdent(id) has completed, every note that was a descendant of
\* id before the call, at any depth, is a descendant of the note's new
\* identifier newId, and none has an identifier below the old identifier id
C24_DescendantsFollowOutdent ==
  (Completed("outdent") /\ NumComponents(op.id) >= 2 /\ UniqueIds(op.pre)) =>
    \A d \in DescendantsIn(op.pre, op.id) :
      /\ d \in DescendantsIn(files, IdOf(files, op.h))
      /\ HasAncestor(IdOf(files, d), incrementID(parentID(op.id)))
      /\ ~HasAncestor(IdOf(files, d), op.id)

\* C25: when outdent(id) has completed, no note that was not a descendant of
\* id before the call is a descendant of the note's new identifier newId; the
\* former children of the note evacuated from newId are among them
C25_OnlyOwnDescendants ==
  (Completed("outdent") /\ NumComponents(op.id) >= 2 /\ UniqueIds(op.pre)) =>
    \A h \in DOMAIN files \ (DescendantsIn(op.pre, op.id) \cup {op.h}) :
      h \notin DescendantsIn(files, IdOf(files, op.h))

\* C26: under every matchRule and either value of addTitle, the basename
\* built for a new note with a generated (well-formed) identifier parses
\* back under fileToId, with the same settings, to that identifier
C26_BuiltNameParsesBack ==
  (ptrace = <<"buildPath", "fileToId">> /\ WellFormed(parg)) =>
    pres = parg

\* C27: no create-sibling, create-child, moveZettelDown or outdent command
\* calls firstAvailableID with a start identifier of zero components
C27_SearchStartsNonEmpty ==
  \A startingID \in calls : NumComponents(startingID) >= 1

\* an outdent that evacuated its target slot and re-parented a child: both
\* searches were started, at newId and at the first child of newId
C27_Witness ==
  /\ Completed("outdent")
  /\ op.newId \in calls
  /\ firstChildOf(op.newId) \in calls
  /\ Len(log) >= 3

\* C28: when two creation commands were started before either created its
\* note and both have created one, the two new notes have different
\* identifiers
C28_ConcurrentCreationsDiffer ==
  (op.kind \in {"sibling", "child"} /\ Len(files) = Len(op.pre) + 2) =>
    IdOf(files, Len(files)) # IdOf(files, Len(files) - 1)

\* C29: for a well-formed identifier (one component or more) the chain id,
\* incrementID(id), ... does not repeat a value; incrementID sends two
\* different well-formed identifiers to different ones; a step keeps the number
\* of components and the kind, digits or letters, of the last one
C29_IncrementChain ==
  (ptrace = <<"incrementID">> /\ WellFormed(parg)) =>
    /\ \A j \in 0..MaxChain, k \in 0..MaxChain :
         j < k => IncrementTimes(j, parg) # IncrementTimes(k, parg)
    /\ \A other \in EngineInputs :
         (WellFormed(other) /\ other # parg) => incrementID(other) # pres
    /\ NumComponents(pres) = NumComponents(parg)
    /\ isNumber(LastComponent(pres)) = isNumber(LastComponent(parg))

\* C30: an outdent or a moveZettelDown of an existing note, in a vault whose
\* identifiers are unique, finds the source file of every renameZettel it
\* calls: no call ends with the "not found" notice
C30_EveryRenameFindsSource ==
  op.kind \in {"outdent", "move"} =>
    \/ /\ \A i \in DOMAIN log : log[i].h # 0
       /\ "notFound" \notin notices
    \/ ~UniqueIds(op.pre)

\* an outdent that evacuated its target slot, re-parented a child and renamed
\* the note, with no rename refused: four renames or more, each with a source
C30_Witness ==
  /\ Completed("outdent")
  /\ UniqueIds(op.pre)
  /\ Len(log) >= 4
  /\ \E i \in DOMAIN log : log[i].by = "moveZettelDown"
  /\ \E i \in DOMAIN log : log[i].by = "outdentChild"
  /\ log[Len(log)].by = "outdentSelf"
  /\ \A i \in DOMAIN log : log[i].h # 0

====
